---- MODULE Spec2Model ----
(***************************************************************************)
(* Panel-of-judges evaluation core of rhel-lightspeed-evaluation.          *)
(*                                                                         *)
(* Python values are modelled as follows.                                  *)
(*   str          a sequence of tokens; the separator characters           *)
(*                "/", ":", ".", "_" are always tokens of their own        *)
(*   Optional[T]  a sequence of length <= 1: None is <<>>, x is <<x>>      *)
(*   dict         a function whose DOMAIN is the set of keys present       *)
(*   float score  an integer number of tenths (0.5 is 5)                   *)
(***************************************************************************)
EXTENDS Integers, Sequences, FiniteSets, TLC

VARIABLES
    raw_config,      \* the panel_of_judges mapping handed to PanelOfJudgesConfig
    cfg_status,      \* "unloaded" | "accepted" | "rejected"
    panel_config,    \* the validated PanelOfJudgesConfig (when accepted)
    default_params,  \* llm_params handed to DeepEvalLLMManagerExt
    mgr_status,      \* "none" | "built" | "raised"
    panel_enabled,   \* DeepEvalLLMManagerExt.panel_enabled
    judge_models,    \* DeepEvalLLMManagerExt.judge_models
    api_enabled,     \* system_config.api.enabled
    fs,              \* the registry files on disk: path -> file
    registry,        \* GEvalHandler._registry (class level)
    registry_path,   \* GEvalHandler._registry_path (class level)
    file_reads,      \* how many times a registry file has been opened
    handlers,        \* how many GEvalHandler constructions have been attempted
    ctor,            \* the last construction: its registry_path argument and outcome
    pc,              \* "idle" | "returned" | "replied": position of the manager's caller
    request,         \* the EvaluationRequest of the call
    outcomes,        \* what each invoked judge (or metric) does in the call
    eff_threshold,   \* what get_effective_threshold answers in the call
    resolved,        \* what _get_geval_config returned in the call
    resolve_arg,     \* the metric name _get_geval_config received in the call
    invoked,         \* the judges invoked in the call, in call order
    handler_result,  \* what the handler's evaluate returned in the call
    verdicts,        \* what evaluate_metric returned: None or a list
    reply,           \* what the last getter of the LLM manager returned
    thr,             \* per constructing thread: its position in _load_registry
    writes,          \* how many times GEvalHandler._registry has been assigned
    observed,        \* the mappings that readers of the registry have seen
    evaluation_params,  \* a rubric's evaluation_params
    converted_params,   \* the evaluation_params GEval is constructed with
    geval_call,      \* a GEvalHandler.evaluate call past the rubric checks:
                     \*   eval_unit   what it is asked to score: level, turn, conversation
                     \*   test_case   what the level's method built: a test case or an error
    processor,       \* a processor method at work:
                     \*   level       "none" | "turn" | "conversation"
                     \*   metric_list its turn_metrics / conversation_metrics argument
                     \*   calls_made  the requests handed to evaluate_metric, in call order
                     \*   returned    what evaluate_metric returned to each of them
                     \*   results     the method's results list
    pipeline         \* a run of the evaluation pipeline:
                     \*   geval_cfg       system_config.geval
                     \*   evaluation_data the list of conversations of the run
                     \*   original_data   the evaluation data as it was loaded
                     \*   applied         how often _apply_default_geval_metrics has run

startup_vars == <<raw_config, cfg_status, panel_config, default_params, mgr_status,
                  panel_enabled, judge_models>>

registry_vars == <<registry, registry_path, file_reads, handlers, ctor>>

call_vars == <<pc, request, outcomes, eff_threshold, resolved, resolve_arg, invoked,
               handler_result, verdicts, reply>>

conc_vars == <<thr, writes, observed>>

param_vars == <<evaluation_params, converted_params>>

data_vars == <<geval_call, processor, pipeline>>

vars == <<startup_vars, api_enabled, fs, registry_vars, call_vars, conc_vars,
          param_vars, data_vars>>

----------------------------------------------------------------------------
(* Python values *)

None == <<>>

Some(x) == <<x>>

\* Python truthiness of an Optional[int]
Truthy(o) == o # None /\ o[1] # 0

\* x or y
PyOr(x, y) == IF Truthy(x) THEN x ELSE y

\* d.get(k, dflt) for a dict of Optional values
DictGet(d, k, dflt) == IF k \in DOMAIN d THEN d[k] ELSE dflt

Range(s) == {s[i] : i \in 1..Len(s)}

Digits == <<"1", "2", "3", "4", "5", "6", "7", "8", "9">>

\* str(n) for a positive int
RECURSIVE IntToStr(_)
IntToStr(n) ==
    IF n < 10 THEN <<(IF n = 0 THEN "0" ELSE Digits[n])>>
    ELSE IntToStr(n \div 10) \o <<(IF n % 10 = 0 THEN "0" ELSE Digits[n % 10])>>

\* s.replace(old, new) for a single-character old
StrReplace(s, old, new) == [i \in 1..Len(s) |-> IF s[i] = old THEN new ELSE s[i]]

----------------------------------------------------------------------------
(* JudgeConfig and PanelOfJudgesConfig: extensions/core/models/system.py *)

\* Field constraints of JudgeConfig
JudgeConfig(j) ==
    /\ Len(j.provider) >= 1
    /\ Len(j.model) >= 1
    /\ (j.max_tokens = None \/ j.max_tokens[1] >= 1)
    /\ (j.timeout = None \/ j.timeout[1] >= 1)
    /\ (j.num_retries = None \/ j.num_retries[1] >= 0)

validate_aggregation_method(v) == v \in {"mean", "median", "weighted_mean"}

\* mutant of validate_apply_to: every entry is allowed
ValidateApplyToAny(v) == TRUE

validate_apply_to(v) == \A i \in 1..Len(v) : v[i] \in {"geval", "custom", "deepeval"}

\* mutant of DerivedJudgeId: the dots of the model are kept
DerivedJudgeIdKeepDots(judge) ==
    judge.provider \o <<"_">>
        \o StrReplace(StrReplace(judge.model, "/", "_"), ":", "_")

\* the identifier derived for a judge that has none
DerivedJudgeId(judge) ==
    judge.provider \o <<"_">>
        \o StrReplace(StrReplace(StrReplace(judge.model, "/", "_"), ":", "_"), ".", "_")

\* first loop of validate_judges: auto-generate missing identifiers
AutoGenerateIds(v) ==
    [i \in 1..Len(v) |->
        IF v[i].judge_id = None \/ v[i].judge_id = Some(<<>>)
        THEN [v[i] EXCEPT !.judge_id = Some(DerivedJudgeId(v[i]))]
        ELSE v[i]]

\* mutant of SuffixDuplicates: the suffix is the count before this occurrence
RECURSIVE SuffixDuplicatesFromOne(_, _, _)
SuffixDuplicatesFromOne(v, i, seen) ==
    IF i > Len(v) THEN v
    ELSE LET id == v[i].judge_id[1] IN
         IF id \in DOMAIN seen
         THEN SuffixDuplicatesFromOne(
                  [v EXCEPT ![i].judge_id = Some(id \o <<"_">> \o IntToStr(seen[id]))],
                  i + 1,
                  [seen EXCEPT ![id] = seen[id] + 1])
         ELSE SuffixDuplicatesFromOne(v, i + 1, [k \in DOMAIN seen \cup {id} |->
                                                    IF k = id THEN 1 ELSE seen[k]])

\* second loop of validate_judges: the seen-counter suffixing, from judge i on
RECURSIVE SuffixDuplicates(_, _, _)
SuffixDuplicates(v, i, seen) ==
    IF i > Len(v) THEN v
    ELSE LET id == v[i].judge_id[1] IN
         IF id \in DOMAIN seen
         THEN LET n == seen[id] + 1 IN
              SuffixDuplicates(
                  [v EXCEPT ![i].judge_id = Some(id \o <<"_">> \o IntToStr(n))],
                  i + 1,
                  [seen EXCEPT ![id] = n])
         ELSE SuffixDuplicates(v, i + 1, [k \in DOMAIN seen \cup {id} |->
                                             IF k = id THEN 1 ELSE seen[k]])

EmptyDict == [k \in {} |-> 0]

validate_judges(v) ==
    LET w == AutoGenerateIds(v)
        judge_ids == [i \in 1..Len(w) |-> w[i].judge_id]
    IN  IF Len(judge_ids) # Cardinality(Range(judge_ids))
        THEN SuffixDuplicates(w, 1, EmptyDict)
        ELSE w

\* PanelOfJudgesConfig(**raw): a field that is given is validated, a field that
\* is omitted takes its default without validation.
PanelAccepts(raw) ==
    /\ "aggregation_method" \in DOMAIN raw
          => validate_aggregation_method(raw["aggregation_method"])
    /\ "apply_to" \in DOMAIN raw => validate_apply_to(raw["apply_to"])
    /\ "judges" \in DOMAIN raw =>
          /\ Len(raw["judges"]) >= 1
          /\ \A i \in 1..Len(raw["judges"]) : JudgeConfig(raw["judges"][i])

PanelOfJudgesConfig(raw) ==
    [enabled |-> DictGet(raw, "enabled", FALSE),
     apply_to |-> DictGet(raw, "apply_to", <<"geval", "custom">>),
     aggregation_method |-> DictGet(raw, "aggregation_method", "mean"),
     judges |-> IF "judges" \in DOMAIN raw THEN validate_judges(raw["judges"])
                ELSE <<>>]

----------------------------------------------------------------------------
(* DeepEvalLLMManagerExt: extensions/core/llm/deepeval.py *)

FallbackMaxTokens == 512

FallbackTimeout == 300

FallbackNumRetries == 3

\* the values _initialize_panel_judges hands to LiteLLMModel
JudgeModelParams(judge_config, d) ==
    [max_tokens  |-> PyOr(PyOr(judge_config.max_tokens, DictGet(d, "max_tokens", None)),
                          Some(FallbackMaxTokens)),
     timeout     |-> PyOr(PyOr(judge_config.timeout, DictGet(d, "timeout", None)),
                          Some(FallbackTimeout)),
     num_retries |-> PyOr(judge_config.num_retries,
                          DictGet(d, "num_retries", Some(FallbackNumRetries)))]

\* the values _create_judge_llm_config hands to LLMConfig
_create_judge_llm_config(judge_config, d) ==
    [provider    |-> judge_config.provider,
     model       |-> judge_config.model,
     max_tokens  |-> PyOr(PyOr(judge_config.max_tokens, DictGet(d, "max_tokens", None)),
                          Some(FallbackMaxTokens)),
     timeout     |-> PyOr(PyOr(judge_config.timeout, DictGet(d, "timeout", None)),
                          Some(FallbackTimeout)),
     num_retries |-> PyOr(judge_config.num_retries,
                          DictGet(d, "num_retries", Some(FallbackNumRetries)))]

\* Field constraints of LLMConfig: the three parameters are required ints
LLMConfig(c) ==
    /\ Len(c.provider) >= 1
    /\ Len(c.model) >= 1
    /\ c.max_tokens # None /\ c.max_tokens[1] >= 1
    /\ c.timeout # None /\ c.timeout[1] >= 1
    /\ c.num_retries # None /\ c.num_retries[1] >= 0

\* one (judge_id, LiteLLMModel) entry of judge_models
JudgeHandle(judge_config, d) ==
    LET p == JudgeModelParams(judge_config, d) IN
    [judge_id    |-> judge_config.judge_id[1],
     provider    |-> judge_config.provider,
     model       |-> judge_config.model,
     max_tokens  |-> p.max_tokens,
     timeout     |-> p.timeout,
     num_retries |-> p.num_retries]

\* mutant of InitializeLoop: each handle is put in front of the earlier ones
RECURSIVE InitializeLoopPrepend(_, _, _, _)
InitializeLoopPrepend(judges_list, d, i, acc) ==
    IF i > Len(judges_list) THEN [raised |-> FALSE, judge_models |-> acc]
    ELSE IF ~LLMConfig(_create_judge_llm_config(judges_list[i], d))
         THEN [raised |-> TRUE, judge_models |-> acc]
         ELSE InitializeLoopPrepend(judges_list, d, i + 1,
                                    <<JudgeHandle(judges_list[i], d)>> \o acc)

\* the loop of _initialize_panel_judges from judge i on; acc is judge_models
RECURSIVE InitializeLoop(_, _, _, _)
InitializeLoop(judges_list, d, i, acc) ==
    IF i > Len(judges_list) THEN [raised |-> FALSE, judge_models |-> acc]
    ELSE IF ~LLMConfig(_create_judge_llm_config(judges_list[i], d))
         THEN [raised |-> TRUE, judge_models |-> acc]
         ELSE InitializeLoop(judges_list, d, i + 1,
                             Append(acc, JudgeHandle(judges_list[i], d)))

_initialize_panel_judges(panel_cfg, d) ==
    IF Len(panel_cfg.judges) = 0
    THEN [raised |-> TRUE, judge_models |-> <<>>]
    ELSE InitializeLoop(panel_cfg.judges, d, 1, <<>>)

\* DeepEvalLLMManagerExt.__init__
ManagerInit(panel_cfg, d) ==
    IF panel_cfg.enabled
    THEN LET r == _initialize_panel_judges(panel_cfg, d) IN
         [status |-> IF r.raised THEN "raised" ELSE "built",
          panel_enabled |-> TRUE,
          judge_models |-> r.judge_models]
    ELSE [status |-> "built", panel_enabled |-> FALSE, judge_models |-> <<>>]

----------------------------------------------------------------------------
(* Bounded inputs *)

MaxJudges == 3

NoParams == [max_tokens |-> None, timeout |-> None, num_retries |-> None]

RawJudge(id, provider, model, p) ==
    [judge_id |-> id, provider |-> provider, model |-> model,
     max_tokens |-> p.max_tokens, timeout |-> p.timeout, num_retries |-> p.num_retries]

\* judges that differ in identity and leave the parameters to the defaults
IdentityJudges ==
    { RawJudge(None, <<"a">>, <<"m">>, NoParams),
      RawJudge(None, <<"a">>, <<"m", "_", "2">>, NoParams),
      RawJudge(None, <<"a">>, <<"m", ".", "2">>, NoParams),
      RawJudge(None, <<"b">>, <<"n", "/", "x", ":", "y">>, NoParams),
      RawJudge(Some(<<"a", "_", "m">>), <<"b">>, <<"m">>, NoParams),
      RawJudge(Some(<<"primary">>), <<"b">>, <<"m">>, NoParams) }

\* judges that differ in their own parameters (0 max_tokens is not accepted)
ParamJudges ==
    { RawJudge(None, <<"a">>, <<"m">>,
               [max_tokens |-> mt, timeout |-> to, num_retries |-> nr]) :
        mt \in {None, Some(0), Some(7)}, to \in {None, Some(8)},
        nr \in {None, Some(0), Some(9)} }

RECURSIVE SeqsUpTo(_, _)
SeqsUpTo(S, n) ==
    IF n = 0 THEN {<<>>}
    ELSE LET shorter == SeqsUpTo(S, n - 1) IN
         shorter \cup {Append(s, x) : s \in shorter, x \in S}

Dict1(k, v) == [x \in {k} |-> v]

\* f | g: the keys of both, g winning
Merge(f, g) ==
    [k \in DOMAIN f \cup DOMAIN g |-> IF k \in DOMAIN g THEN g[k] ELSE f[k]]

RawConfigs ==
    \* enabled given or omitted, judges omitted
    {EmptyDict, Dict1("enabled", TRUE), Dict1("enabled", FALSE)}
    \* lists of judges that differ in identity
    \cup { Merge(Dict1("enabled", e), Dict1("judges", js)) :
             e \in BOOLEAN, js \in SeqsUpTo(IdentityJudges, MaxJudges) }
    \* one judge with its own parameters
    \cup { Merge(Dict1("enabled", TRUE), Dict1("judges", <<j>>)) : j \in ParamJudges }
    \* the other fields
    \cup { Merge(Merge(Dict1("enabled", TRUE),
                       Dict1("judges", <<RawJudge(None, <<"a">>, <<"m">>, NoParams)>>)),
                 Merge(Dict1("aggregation_method", am), Dict1("apply_to", at))) :
             am \in {"mean", "median", "weighted_mean", "max"},
             at \in {<<>>, <<"geval">>, <<"deepeval", "custom">>, <<"geval", "ragas">>} }

\* llm_params: each parameter missing, null or given
DefaultParamSets ==
    { Merge(Merge(mt, to), nr) :
        mt \in {EmptyDict, Dict1("max_tokens", None), Dict1("max_tokens", Some(4))},
        to \in {EmptyDict, Dict1("timeout", None), Dict1("timeout", Some(5))},
        nr \in {EmptyDict, Dict1("num_retries", None), Dict1("num_retries", Some(0)),
                Dict1("num_retries", Some(1))} }

----------------------------------------------------------------------------
(* GEvalHandler: extensions/geval.py *)

\* mutant of RegistryLoaded: "if GEvalHandler._registry: return"
RegistryLoadedTruthy(reg) == reg # None /\ reg[1] # EmptyDict

\* "if GEvalHandler._registry is not None: return"
RegistryLoaded(reg) == reg # None

\* the candidate locations tried when no registry_path is given, in order
possible_paths == <<"cwd", "pkg">>

\* the first candidate that exists, or None
RECURSIVE FirstExisting(_, _, _)
FirstExisting(files, paths, i) ==
    IF i > Len(paths) THEN None
    ELSE IF files[paths[i]].exists THEN Some(paths[i])
    ELSE FirstExisting(files, paths, i + 1)

\* GEvalHandler._load_registry(registry_path): the class state after the call,
\* whether a file was opened and whether the call raised
_load_registry(reg, reg_path, arg, files) ==
    IF RegistryLoaded(reg)
    THEN [registry |-> reg, registry_path |-> reg_path, opened |-> FALSE, raised |-> FALSE]
    ELSE LET path == IF arg # None THEN arg ELSE FirstExisting(files, possible_paths, 1) IN
         IF path = None \/ ~files[path[1]].exists
         THEN IF arg # None
              \* the warning formats possible_paths, which this branch never bound
              THEN [registry |-> reg, registry_path |-> reg_path,
                    opened |-> FALSE, raised |-> TRUE]
              ELSE [registry |-> Some(EmptyDict), registry_path |-> reg_path,
                    opened |-> FALSE, raised |-> FALSE]
         ELSE IF files[path[1]].parses
              THEN [registry |-> Some(files[path[1]].content), registry_path |-> path,
                    opened |-> TRUE, raised |-> FALSE]
              ELSE [registry |-> Some(EmptyDict), registry_path |-> reg_path,
                    opened |-> TRUE, raised |-> FALSE]

\* f"geval:{metric_name}"
MetricKey(metric_name) == <<"geval", ":">> \o metric_name

\* the turn-level condition of _get_geval_config
TurnDefines(metric_name, turn_data, is_conversation) ==
    /\ ~is_conversation
    /\ turn_data # None
    /\ turn_data[1].turn_metrics_metadata # None
    /\ turn_data[1].turn_metrics_metadata[1] # EmptyDict
    /\ MetricKey(metric_name) \in DOMAIN turn_data[1].turn_metrics_metadata[1]

\* the conversation-level condition of _get_geval_config
ConversationDefines(metric_name, conv_data) ==
    /\ conv_data.conversation_metrics_metadata # None
    /\ conv_data.conversation_metrics_metadata[1] # EmptyDict
    /\ MetricKey(metric_name) \in DOMAIN conv_data.conversation_metrics_metadata[1]

\* the registry condition of _get_geval_config
RegistryDefines(metric_name, reg) ==
    /\ reg # None
    /\ reg[1] # EmptyDict
    /\ metric_name \in DOMAIN reg[1]

\* mutant of _get_geval_config: the registry is consulted first
GetGevalConfigRegistryFirst(metric_name, conv_data, turn_data, is_conversation, reg) ==
    IF RegistryDefines(metric_name, reg)
    THEN Some(reg[1][metric_name])
    ELSE IF TurnDefines(metric_name, turn_data, is_conversation)
    THEN Some(turn_data[1].turn_metrics_metadata[1][MetricKey(metric_name)])
    ELSE IF ConversationDefines(metric_name, conv_data)
    THEN Some(conv_data.conversation_metrics_metadata[1][MetricKey(metric_name)])
    ELSE None

\* GEvalHandler._get_geval_config: the rubric, or None
_get_geval_config(metric_name, conv_data, turn_data, is_conversation, reg) ==
    IF TurnDefines(metric_name, turn_data, is_conversation)
    THEN Some(turn_data[1].turn_metrics_metadata[1][MetricKey(metric_name)])
    ELSE IF ConversationDefines(metric_name, conv_data)
    THEN Some(conv_data.conversation_metrics_metadata[1][MetricKey(metric_name)])
    ELSE IF RegistryDefines(metric_name, reg)
    THEN Some(reg[1][metric_name])
    ELSE None

\* the member names of deepeval's LLMTestCaseParams
LLMTestCaseParams ==
    { <<"INPUT">>, <<"ACTUAL", "_", "OUTPUT">>, <<"EXPECTED", "_", "OUTPUT">>,
      <<"CONTEXT">>, <<"RETRIEVAL", "_", "CONTEXT">> }

\* an evaluation_params entry that is not a str (a YAML number)
NotAString == <<"<int>">>

\* str.upper() on one token
UpperToken(t) ==
    CASE t \in {"input", "Input"} -> "INPUT"
      [] t = "actual" -> "ACTUAL"
      [] t = "output" -> "OUTPUT"
      [] t = "expected" -> "EXPECTED"
      [] t = "context" -> "CONTEXT"
      [] t = "accuracy" -> "ACCURACY"
      [] OTHER -> t

StrUpper(str) == [i \in 1..Len(str) |-> UpperToken(str[i])]

\* LLMTestCaseParams[param.upper().replace(" ", "_")]: the member, or None when
\* the lookup raises KeyError or AttributeError
EnumLookup(param) ==
    IF param = NotAString THEN None
    ELSE LET key == StrReplace(StrUpper(param), " ", "_") IN
         IF key \in LLMTestCaseParams THEN Some(key) ELSE None

\* mutant of ConvertLoop: an entry that does not map is skipped
RECURSIVE ConvertLoopSkip(_, _, _)
ConvertLoopSkip(params, i, converted) ==
    IF i > Len(params) THEN (IF converted = <<>> THEN None ELSE Some(converted))
    ELSE IF EnumLookup(params[i]) = None
    THEN ConvertLoopSkip(params, i + 1, converted)
    ELSE ConvertLoopSkip(params, i + 1, Append(converted, EnumLookup(params[i])[1]))

\* the loop of _convert_evaluation_params from entry i on
RECURSIVE ConvertLoop(_, _, _)
ConvertLoop(params, i, converted) ==
    IF i > Len(params) THEN (IF converted = <<>> THEN None ELSE Some(converted))
    ELSE IF EnumLookup(params[i]) = None
    THEN None
    ELSE ConvertLoop(params, i + 1, Append(converted, EnumLookup(params[i])[1]))

\* GEvalHandler._convert_evaluation_params: the converted list, or None
_convert_evaluation_params(params) ==
    IF params = <<>> THEN None ELSE ConvertLoop(params, 1, <<>>)

\* [LLMTestCaseParams.INPUT, LLMTestCaseParams.ACTUAL_OUTPUT]
DefaultEvaluationParams == << <<"INPUT">>, <<"ACTUAL", "_", "OUTPUT">> >>

\* the evaluation_params that _evaluate_turn and _evaluate_conversation hand to
\* GEval
MetricEvaluationParams(params) ==
    LET c == _convert_evaluation_params(params) IN
    IF c = None \/ c[1] = <<>> THEN DefaultEvaluationParams ELSE c[1]

----------------------------------------------------------------------------
(* Judges and what they answer *)

\* mutant of get_llms: in panel mode only the first judge is returned
GetLlmsFirstJudge(enabled, models, d) ==
    IF enabled /\ models # <<>> THEN <<models[1]>>
    ELSE << [judge_id    |-> <<"primary">>,
             provider    |-> <<"primary">>,
             model       |-> <<"primary">>,
             max_tokens  |-> DictGet(d, "max_tokens", None),
             timeout     |-> DictGet(d, "timeout", None),
             num_retries |-> DictGet(d, "num_retries", Some(FallbackNumRetries))] >>

\* DeepEvalLLMManagerExt.get_llms
get_llms(enabled, models, d) ==
    IF enabled /\ models # <<>> THEN models
    ELSE << [judge_id    |-> <<"primary">>,
             provider    |-> <<"primary">>,
             model       |-> <<"primary">>,
             max_tokens  |-> DictGet(d, "max_tokens", None),
             timeout     |-> DictGet(d, "timeout", None),
             num_retries |-> DictGet(d, "num_retries", Some(FallbackNumRetries))] >>

\* what one invocation does: it raises (an exception the standard-metric route
\* catches, or any other), or it returns a score (possibly None)
Raise == [raised |-> TRUE, caught |-> FALSE, score |-> None]

RaiseValueError == [raised |-> TRUE, caught |-> TRUE, score |-> None]

NoScore == [raised |-> FALSE, caught |-> FALSE, score |-> None]

Ok(sc) == [raised |-> FALSE, caught |-> FALSE, score |-> Some(sc)]

Reason(text, judge) == [text |-> text, judge |-> judge]

ResultTuple(judge_id, score, reason) ==
    [judge_id |-> judge_id, score |-> score, reason |-> reason]

\* one judge's measure() inside its own try/except: the i-th tuple
JudgeTuple(handle, i, out) ==
    IF out.raised
    THEN ResultTuple(handle.judge_id, None, Reason("GEval evaluation error", i))
    ELSE ResultTuple(handle.judge_id,
                     IF out.score = None THEN Some(0) ELSE out.score,
                     Reason("judge reason", i))

\* the per-judge loop of the panel core, from judge i on
RECURSIVE PanelLoop(_, _, _, _)
PanelLoop(llms, outs, i, acc) ==
    IF i > Len(llms) THEN acc
    ELSE PanelLoop(llms, outs, i + 1, Append(acc, JudgeTuple(llms[i], i, outs[i])))

HandlerReturn(tuples, called, rubric) ==
    [raised |-> FALSE, is_list |-> TRUE, tuples |-> tuples,
     invoked |-> called, resolved |-> rubric, resolve_arg |-> None]

HandlerRaise ==
    [raised |-> TRUE, is_list |-> FALSE, tuples |-> <<>>, invoked |-> <<>>,
     resolved |-> None, resolve_arg |-> None]

\* mutant of NoCriteria: only a missing key counts
NoCriteriaMissingOnly(rubric) == "criteria" \notin DOMAIN rubric

\* not geval_config.get("criteria")
NoCriteria(rubric) == "criteria" \notin DOMAIN rubric \/ rubric["criteria"] = ""

\* the panel core: GEvalHandlerExt.evaluate
PanelEvaluate(metric_name, conv_data, turn_data, is_conversation, reg, llms, outs) ==
    LET geval_config ==
            _get_geval_config(metric_name, conv_data, turn_data, is_conversation, reg)
        r ==
            IF geval_config = None \/ geval_config[1] = EmptyDict
            THEN HandlerReturn(
                     <<ResultTuple(<<"primary">>, None,
                                   Reason("GEval configuration not found", 0))>>,
                     <<>>, geval_config)
            ELSE IF NoCriteria(geval_config[1])
            THEN HandlerReturn(
                     <<ResultTuple(<<"primary">>, None,
                                   Reason("GEval requires criteria", 0))>>,
                     <<>>, geval_config)
            ELSE IF ~is_conversation /\ turn_data = None
            THEN HandlerReturn(
                     <<ResultTuple(<<"primary">>, None,
                                   Reason("Turn data required", 0))>>,
                     <<>>, geval_config)
            ELSE HandlerReturn(PanelLoop(llms, outs, 1, <<>>),
                               [i \in 1..Len(llms) |-> llms[i].judge_id],
                               geval_config)
    IN  [r EXCEPT !.resolve_arg = Some(metric_name)]

----------------------------------------------------------------------------
(* DeepEvalMetricsExt: extensions/core/metrics/deepeval.py *)

\* the names of the standard DeepEval metrics
supported_metrics == { <<"conversation", "_", "completeness">> }

\* mutant of StartsWith: no string has the prefix
StartsWithNever(str, prefix) == FALSE

\* str.startswith(prefix)
StartsWith(str, prefix) ==
    Len(str) >= Len(prefix) /\ SubSeq(str, 1, Len(prefix)) = prefix

\* DeepEvalMetricsExt.evaluate
DeepEvalEvaluate(metric_name, req, reg, llms, outs) ==
    IF metric_name \in supported_metrics
    THEN IF outs[1].raised
         THEN IF outs[1].caught
              THEN HandlerReturn(
                       <<ResultTuple(<<"primary">>, None,
                                     Reason("DeepEval evaluation failed", 0))>>,
                       <<>>, None)
              ELSE HandlerRaise
         ELSE HandlerReturn(
                  <<ResultTuple(<<"primary">>, outs[1].score, Reason("metric reason", 0))>>,
                  <<>>, None)
    ELSE LET normalized_metric_name ==
                 IF StartsWith(metric_name, <<"geval", ":">>)
                 THEN SubSeq(metric_name, 3, Len(metric_name))
                 ELSE metric_name
         IN  PanelEvaluate(normalized_metric_name, req.conv_data, req.turn_data,
                           req.is_conversation, reg, llms, outs)

\* the handlers that return one (score, reason) pair: ragas, custom, script
LegacyEvaluate(outs) ==
    IF outs[1].raised THEN HandlerRaise
    ELSE [raised |-> FALSE, is_list |-> FALSE,
          tuples |-> <<ResultTuple(<<>>, outs[1].score, Reason("metric reason", 0))>>,
          invoked |-> <<>>, resolved |-> None, resolve_arg |-> None]

----------------------------------------------------------------------------
(* MetricsEvaluatorExt: extensions/pipeline/evaluation/evaluator.py *)

\* mutant of handlers_map: one more framework has a handler
HandlersMapWithBogus ==
    { <<"ragas">>, <<"deepeval">>, <<"geval">>, <<"custom">>, <<"script">>, <<"bogus">> }

\* the keys of self.handlers
handlers_map == { <<"ragas">>, <<"deepeval">>, <<"geval">>, <<"custom">>, <<"script">> }

DefaultThreshold == 5

\* mutant of _determine_status: the comparison is strict
DetermineStatusStrict(score, threshold) ==
    LET t == IF threshold = None THEN DefaultThreshold ELSE threshold[1] IN
    IF score > t THEN "PASS" ELSE "FAIL"

\* MetricsEvaluatorExt._determine_status
_determine_status(score, threshold) ==
    LET t == IF threshold = None THEN DefaultThreshold ELSE threshold[1] IN
    IF score >= t THEN "PASS" ELSE "FAIL"

\* mutant of VerdictJudgeId: "primary" is not normalised
VerdictJudgeIdKeep(judge_id) == judge_id

\* judge_id if judge_id != "primary" else None
VerdictJudgeId(judge_id) ==
    IF judge_id = None \/ judge_id[1] = <<"primary">> THEN None ELSE judge_id

\* mutant of _create_error_result: the result is a FAIL with score 0
CreateErrorResultFail(req, reason, judge_id) ==
    [metric_identifier |-> req.metric_identifier,
     judge_id |-> VerdictJudgeId(judge_id),
     result |-> "FAIL",
     score |-> Some(0),
     threshold |-> None,
     reason |-> reason]

\* MetricsEvaluatorExt._create_error_result
_create_error_result(req, reason, judge_id) ==
    [metric_identifier |-> req.metric_identifier,
     judge_id |-> VerdictJudgeId(judge_id),
     result |-> "ERROR",
     score |-> None,
     threshold |-> None,
     reason |-> reason]

\* the EvaluationResultExt built for a tuple that has a score
ScoredResult(req, judge_id, score, threshold, reason) ==
    [metric_identifier |-> req.metric_identifier,
     judge_id |-> VerdictJudgeId(judge_id),
     result |-> _determine_status(score[1], threshold),
     score |-> score,
     threshold |-> threshold,
     reason |-> reason]

\* mutant of AssembleLoop: the first tuple without a score ends the loop and its
\* error result is the only one returned
RECURSIVE AssembleLoopAbort(_, _, _, _, _)
AssembleLoopAbort(req, tuples, threshold, i, results) ==
    IF i > Len(tuples) THEN results
    ELSE IF tuples[i].score = None
    THEN <<_create_error_result(req, tuples[i].reason, Some(tuples[i].judge_id))>>
    ELSE AssembleLoopAbort(req, tuples, threshold, i + 1,
             Append(results,
                 ScoredResult(req, Some(tuples[i].judge_id), tuples[i].score,
                              threshold, tuples[i].reason)))

\* the loop of evaluate_metric over a list handler_result, from tuple i on
RECURSIVE AssembleLoop(_, _, _, _, _)
AssembleLoop(req, tuples, threshold, i, results) ==
    IF i > Len(tuples) THEN results
    ELSE AssembleLoop(req, tuples, threshold, i + 1,
             Append(results,
                 IF tuples[i].score = None
                 THEN _create_error_result(req, tuples[i].reason, Some(tuples[i].judge_id))
                 ELSE ScoredResult(req, Some(tuples[i].judge_id), tuples[i].score,
                                   threshold, tuples[i].reason)))

\* the position of the first ":" of an identifier, 0 when it has none
RECURSIVE ColonIndex(_, _)
ColonIndex(str, i) ==
    IF i > Len(str) THEN 0
    ELSE IF str[i] = ":" THEN i
    ELSE ColonIndex(str, i + 1)

Returned(result, h) ==
    [returned |-> result, handler_result |-> h.tuples, invoked |-> h.invoked,
     resolved |-> h.resolved, resolve_arg |-> h.resolve_arg]

NoHandlerCall ==
    [raised |-> FALSE, is_list |-> FALSE, tuples |-> <<>>, invoked |-> <<>>,
     resolved |-> None, resolve_arg |-> None]

\* mutant of ExceptionResult: the failure leaves no verdict
ExceptionResultNone(req) == None

\* the "except Exception" branch of evaluate_metric
ExceptionResult(req) ==
    Some(<<_create_error_result(req, Reason("Evaluation error", 0), None)>>)

\* MetricsEvaluatorExt.evaluate_metric
evaluate_metric(req, outs, threshold, api, reg, llms) ==
    LET c == ColonIndex(req.metric_identifier, 1) IN
    IF c = 0
    THEN Returned(ExceptionResult(req), NoHandlerCall)
    ELSE LET framework == SubSeq(req.metric_identifier, 1, c - 1)
             metric_name == SubSeq(req.metric_identifier, c + 1,
                                   Len(req.metric_identifier))
         IN  IF framework = <<"script">> /\ ~api
             THEN Returned(None, NoHandlerCall)
             ELSE IF framework \notin handlers_map
             THEN Returned(
                      Some(<<_create_error_result(
                                 req, Reason("Unsupported framework", 0), None)>>),
                      NoHandlerCall)
             ELSE LET h == IF framework \in {<<"deepeval">>, <<"geval">>}
                           THEN DeepEvalEvaluate(metric_name, req, reg, llms, outs)
                           ELSE LegacyEvaluate(outs)
                  IN  IF h.raised
                      THEN Returned(ExceptionResult(req), h)
                      ELSE IF h.is_list
                      THEN Returned(
                               Some(AssembleLoop(req, h.tuples, threshold, 1, <<>>)), h)
                      ELSE IF h.tuples[1].score = None
                      THEN Returned(
                               Some(<<_create_error_result(req, h.tuples[1].reason, None)>>),
                               h)
                      ELSE Returned(
                               Some(<<ScoredResult(req, None, h.tuples[1].score,
                                                   threshold, h.tuples[1].reason)>>),
                               h)

----------------------------------------------------------------------------
(* Bounded inputs of the evaluation *)

MaxHandlers == 2

\* rubric definitions, one per source, all different
TurnRubric == [criteria |-> "turn criteria", threshold |-> 7]

ConversationRubric == [criteria |-> "conversation criteria", threshold |-> 6]

RegistryRubric == [criteria |-> "registry criteria", threshold |-> 7]

OtherRubric == [criteria |-> "other criteria", threshold |-> 4]

\* rubrics without criteria text: the key is missing, or the text is empty
RubricWithoutCriteria == [threshold |-> 7]

RubricEmptyCriteria == [criteria |-> "", threshold |-> 7]

RegistryA == (<<"m1">> :> RegistryRubric) @@ (<<"m4">> :> RubricWithoutCriteria)

RegistryB ==
    (<<"m1">> :> OtherRubric) @@ (<<"m3">> :> OtherRubric)
        @@ (<<"m4">> :> RubricEmptyCriteria)

Missing == [exists |-> FALSE, parses |-> FALSE, content |-> EmptyDict]

Invalid == [exists |-> TRUE, parses |-> FALSE, content |-> EmptyDict]

File(c) == [exists |-> TRUE, parses |-> TRUE, content |-> c]

NoFiles == [p \in {"P1", "P2", "cwd", "pkg"} |-> Missing]

FileSystems ==
    { NoFiles,
      [NoFiles EXCEPT !["P1"] = File(RegistryA), !["P2"] = File(RegistryB),
                      !["pkg"] = File(RegistryB)],
      [NoFiles EXCEPT !["P1"] = Invalid, !["P2"] = File(EmptyDict),
                      !["cwd"] = File(RegistryA), !["pkg"] = File(RegistryB)] }

RegistryPathArgs == {None, Some("P1"), Some("P2")}

\* the i-th configured judge of the evaluation: (a, m1), (b, m2), then a judge
\* (c, m3) whose configured identifier is "primary", and again
EvalJudge(i) ==
    IF i % 3 = 1 THEN RawJudge(None, <<"a">>, <<"m1">>, NoParams)
    ELSE IF i % 3 = 2 THEN RawJudge(None, <<"b">>, <<"m2">>, NoParams)
    ELSE RawJudge(Some(<<"primary">>), <<"c">>, <<"m3">>, NoParams)

\* apply_to of the panel of n judges: omitted, or given with "deepeval" listed
EvalApplyTo(n) ==
    IF n % 2 = 0 THEN Dict1("apply_to", <<"geval", "deepeval">>) ELSE EmptyDict

\* panel disabled, or enabled with 1..MaxJudges judges
EvalRawConfigs ==
    {EmptyDict}
    \cup { Merge(Merge(Dict1("enabled", TRUE),
                       Dict1("judges", [i \in 1..n |-> EvalJudge(i)])),
                 EvalApplyTo(n)) :
             n \in 1..MaxJudges }

EvalDefaultParams ==
    Merge(Dict1("max_tokens", Some(4)), Dict1("num_retries", Some(1)))

Turn(metadata) == [turn_metrics_metadata |-> metadata]

Conversation(metadata) == [conversation_metrics_metadata |-> metadata]

Request(id, is_conversation, turn_data, conv_data) ==
    [metric_identifier |-> id, is_conversation |-> is_conversation,
     turn_data |-> turn_data, conv_data |-> conv_data]

M1Key == <<"geval", ":", "m1">>

TurnMetadata == {None, Some(M1Key :> TurnRubric)}

ConversationMetadata == {None, Some(M1Key :> ConversationRubric)}

\* requests for m1, turn-level with a turn and conversation-level, and the
\* identifier that carries the prefix twice
RubricRequests ==
    { Request(M1Key, FALSE, Some(Turn(tm)), Conversation(cm)) :
        tm \in TurnMetadata, cm \in ConversationMetadata }
    \cup { Request(M1Key, TRUE, None, Conversation(cm)) : cm \in ConversationMetadata }
    \cup { Request(<<"geval", ":", "geval", ":", "m1">>, FALSE, Some(Turn(None)),
                   Conversation(None)) }

\* requests that end before a judge is asked: turn-level without turn data, a
\* metric no source defines (m2), a metric whose rubrics have no criteria (m4)
EarlyReturnRequests ==
    { Request(M1Key, FALSE, None, Conversation(cm)) : cm \in ConversationMetadata }
    \cup { Request(id, FALSE, Some(Turn(None)), Conversation(None)) :
              id \in { <<"geval", ":", "m2">>, <<"geval", ":", "m4">> } }

GEvalRequests == RubricRequests \cup EarlyReturnRequests

\* a standard metric, the one-pair handlers, an unknown framework, no ":"
OtherRequests ==
    { Request(id, FALSE, Some(Turn(None)), Conversation(None)) :
        id \in { <<"deepeval", ":", "conversation", "_", "completeness">>,
                 <<"ragas", ":", "faithfulness">>,
                 <<"script", ":", "action", "_", "eval">>,
                 <<"bogus", ":", "x">>,
                 <<"nocolon">> } }

Scores == {6, 8}

Thresholds == {None, Some(7), Some(8)}

JudgeOutcomes == {Raise} \cup {Ok(sc) : sc \in Scores}

MetricOutcomes == {Raise, RaiseValueError, NoScore} \cup {Ok(sc) : sc \in Scores}

\* the calls a state allows: a request and what each invocation will do; where
\* the request ends before a judge is asked, every judge would have scored
Calls(llms) ==
    { [req |-> r, outs |-> o] :
        r \in RubricRequests, o \in [1..Len(llms) -> JudgeOutcomes] }
    \cup { [req |-> r, outs |-> [i \in 1..Len(llms) |-> Ok(6)]] :
              r \in EarlyReturnRequests }
    \cup { [req |-> r, outs |-> o] : r \in OtherRequests, o \in [1..1 -> MetricOutcomes] }

----------------------------------------------------------------------------
(* Actions *)

DefaultPanelConfig == PanelOfJudgesConfig(EmptyDict)

NoHandler ==
    /\ registry = None
    /\ registry_path = None
    /\ file_reads = 0
    /\ handlers = 0
    /\ ctor = [arg |-> None, raised |-> FALSE]

NoCall ==
    /\ pc = "idle"
    /\ request = None
    /\ outcomes = <<>>
    /\ eff_threshold = None
    /\ resolved = None
    /\ resolve_arg = None
    /\ invoked = <<>>
    /\ handler_result = <<>>
    /\ verdicts = None
    /\ reply = None

\* no GEvalHandler.evaluate call has built a test case
NoTestCase == geval_call = [eval_unit |-> None, test_case |-> None]

\* no processor method is running
NoProcessing ==
    processor = [level |-> "none", metric_list |-> <<>>, calls_made |-> <<>>,
                 returned |-> <<>>, results |-> <<>>]

\* no run has been started from the command line
NoRun ==
    pipeline = [geval_cfg |-> None, evaluation_data |-> <<>>, original_data |-> <<>>,
                applied |-> 0]

\* GEvalHandler(llm_manager, registry_path)
ConstructHandler ==
    /\ pc = "idle"
    /\ handlers < MaxHandlers
    /\ \E arg \in RegistryPathArgs :
          LET r == _load_registry(registry, registry_path, arg, fs) IN
          /\ registry' = r.registry
          /\ registry_path' = r.registry_path
          /\ file_reads' = IF r.opened THEN file_reads + 1 ELSE file_reads
          /\ ctor' = [arg |-> arg, raised |-> r.raised]
    /\ handlers' = handlers + 1
    /\ UNCHANGED <<startup_vars, api_enabled, fs, call_vars, conc_vars, param_vars, data_vars>>

\* metrics_evaluator.evaluate_metric(request), once a handler exists
EvaluateMetric ==
    /\ pc = "idle"
    /\ mgr_status = "built"
    /\ registry # None
    /\ LET llms == get_llms(panel_enabled, judge_models, default_params) IN
       \E call \in Calls(llms), threshold \in Thresholds :
          LET r == evaluate_metric(call.req, call.outs, threshold, api_enabled,
                                   registry, llms)
          IN  /\ request' = Some(call.req)
              /\ outcomes' = call.outs
              /\ eff_threshold' = threshold
              /\ resolved' = r.resolved
              /\ resolve_arg' = r.resolve_arg
              /\ invoked' = r.invoked
              /\ handler_result' = r.handler_result
              /\ verdicts' = r.returned
    /\ pc' = "returned"
    /\ UNCHANGED reply
    /\ UNCHANGED <<startup_vars, api_enabled, fs, registry_vars, conc_vars, param_vars, data_vars>>

\* the getters of DeepEvalLLMManagerExt
ManagerGetters ==
    {"is_panel_enabled", "get_llm", "get_llms", "get_panel_config", "get_model_info"}

\* DeepEvalLLMManagerExt.get_model_info
get_model_info(enabled, models, d) ==
    LET base_info == [max_tokens    |-> DictGet(d, "max_tokens", None),
                      timeout       |-> DictGet(d, "timeout", None),
                      num_retries   |-> DictGet(d, "num_retries", Some(FallbackNumRetries)),
                      panel_enabled |-> enabled,
                      num_judges    |-> None,
                      judges        |-> None]
    IN  IF enabled /\ models # <<>>
        THEN [base_info EXCEPT !.num_judges = Some(Len(models)),
                               !.judges = Some([i \in 1..Len(models) |-> models[i].judge_id])]
        ELSE base_info

\* what getter g returns
ManagerGet(g, enabled, models, d, panel_cfg) ==
    CASE g = "is_panel_enabled" -> enabled
      [] g = "get_llm" -> get_llms(enabled, models, d)[1]
      [] g = "get_llms" -> get_llms(enabled, models, d)
      [] g = "get_panel_config" -> IF enabled THEN Some(panel_cfg) ELSE None
      [] g = "get_model_info" -> get_model_info(enabled, models, d)

\* a caller asks the LLM manager: no getter assigns a field of the manager
QueryManager ==
    /\ pc = "idle"
    /\ mgr_status = "built"
    /\ \E g \in ManagerGetters :
          reply' = Some([call |-> g,
                         value |-> ManagerGet(g, panel_enabled, judge_models,
                                              default_params, panel_config)])
    /\ pc' = "replied"
    /\ UNCHANGED <<request, outcomes, eff_threshold, resolved, resolve_arg, invoked,
                   handler_result, verdicts>>
    /\ UNCHANGED <<startup_vars, api_enabled, fs, registry_vars, conc_vars, param_vars, data_vars>>

\* the caller takes the returned value; the call is over
Collect ==
    /\ pc \in {"returned", "replied"}
    /\ pc' = "idle"
    /\ request' = None
    /\ outcomes' = <<>>
    /\ eff_threshold' = None
    /\ resolved' = None
    /\ resolve_arg' = None
    /\ invoked' = <<>>
    /\ handler_result' = <<>>
    /\ verdicts' = None
    /\ reply' = None
    /\ UNCHANGED <<startup_vars, api_enabled, fs, registry_vars, conc_vars, param_vars, data_vars>>

----------------------------------------------------------------------------
(* Concurrent construction: several threads construct a GEvalHandler while   *)
(* the registry is unloaded. _load_registry takes no lock, so its statements *)
(* interleave; a step below is at least one statement, so every behaviour    *)
(* here is an interleaving the code allows.                                   *)

MaxThreads == 2

Threads == 1..MaxThreads

ThreadReady == [pc |-> "ready", arg |-> None, path |-> None]

NoThreads ==
    /\ thr = [t \in Threads |-> ThreadReady]
    /\ writes = 0
    /\ observed = {}

\* no rubric conversion has been asked for
NoConversion ==
    /\ evaluation_params = <<>>
    /\ converted_params = None

\* a thread calls GEvalHandler(llm_manager, registry_path)
ThreadStart ==
    /\ \E t \in Threads, arg \in RegistryPathArgs :
          /\ thr[t].pc = "ready"
          /\ thr' = [thr EXCEPT ![t] = [pc |-> "check", arg |-> arg, path |-> None]]
    /\ handlers' = handlers + 1
    /\ UNCHANGED <<registry, registry_path, file_reads, ctor, writes, observed>>
    /\ UNCHANGED <<startup_vars, api_enabled, fs, call_vars, param_vars, data_vars>>

\* "if GEvalHandler._registry is not None: return"
ThreadCheck ==
    /\ \E t \in Threads :
          /\ thr[t].pc = "check"
          /\ thr' = [thr EXCEPT ![t].pc =
                         IF RegistryLoaded(registry) THEN "done" ELSE "locate"]
    /\ UNCHANGED <<registry_vars, writes, observed>>
    /\ UNCHANGED <<startup_vars, api_enabled, fs, call_vars, param_vars, data_vars>>

\* the path is determined; when no file is there the call ends: it raises for
\* an explicit path (possible_paths is unbound) and else assigns {}
ThreadLocate ==
    /\ \E t \in Threads :
          /\ thr[t].pc = "locate"
          /\ LET path == IF thr[t].arg # None THEN thr[t].arg
                         ELSE FirstExisting(fs, possible_paths, 1)
             IN  IF path = None \/ ~fs[path[1]].exists
                 THEN IF thr[t].arg # None
                      THEN /\ thr' = [thr EXCEPT ![t].pc = "raised"]
                           /\ UNCHANGED <<registry, writes>>
                      ELSE /\ thr' = [thr EXCEPT ![t].pc = "done"]
                           /\ registry' = Some(EmptyDict)
                           /\ writes' = writes + 1
                 ELSE /\ thr' = [thr EXCEPT ![t].pc = "load", ![t].path = path]
                      /\ UNCHANGED <<registry, writes>>
    /\ UNCHANGED <<registry_path, file_reads, handlers, ctor, observed>>
    /\ UNCHANGED <<startup_vars, api_enabled, fs, call_vars, param_vars, data_vars>>

\* the file is opened and parsed and the class attributes are assigned
ThreadLoad ==
    /\ \E t \in Threads :
          /\ thr[t].pc = "load"
          /\ LET file == fs[thr[t].path[1]] IN
             /\ registry' = IF file.parses THEN Some(file.content) ELSE Some(EmptyDict)
             /\ registry_path' = IF file.parses THEN thr[t].path ELSE registry_path
          /\ thr' = [thr EXCEPT ![t].pc = "done"]
    /\ file_reads' = file_reads + 1
    /\ writes' = writes + 1
    /\ UNCHANGED <<handlers, ctor, observed>>
    /\ UNCHANGED <<startup_vars, api_enabled, fs, call_vars, param_vars, data_vars>>

\* a resolution call reads GEvalHandler._registry
ReadRegistry ==
    /\ registry # None
    /\ registry[1] \notin observed
    /\ observed' = observed \cup {registry[1]}
    /\ UNCHANGED <<thr, writes>>
    /\ UNCHANGED <<startup_vars, api_enabled, fs, registry_vars, call_vars, param_vars, data_vars>>

InitConcurrent ==
    /\ raw_config = EmptyDict
    /\ cfg_status = "accepted"
    /\ panel_config = DefaultPanelConfig
    /\ default_params = EvalDefaultParams
    /\ mgr_status = "built"
    /\ panel_enabled = FALSE
    /\ judge_models = <<>>
    /\ api_enabled = TRUE
    /\ fs \in FileSystems
    /\ NoHandler
    /\ NoCall
    /\ NoThreads
    /\ NoConversion
    /\ NoTestCase
    /\ NoProcessing
    /\ NoRun

NextConcurrent ==
    ThreadStart \/ ThreadCheck \/ ThreadLocate \/ ThreadLoad \/ ReadRegistry

SpecConcurrent == InitConcurrent /\ [][NextConcurrent]_vars

----------------------------------------------------------------------------
(* Rubric conversion: a rubric's evaluation_params are converted for GEval *)

MaxParams == 3

\* entries a rubric may list: canonical names in several spellings, a custom
\* name, and a value that is not a string
ParamStrings ==
    { <<"input">>, <<"actual", "_", "output">>, <<"actual", " ", "output">>,
      <<"EXPECTED", "_", "OUTPUT">>, <<"accuracy">>, NotAString }

InitParams ==
    /\ raw_config = EmptyDict
    /\ cfg_status = "accepted"
    /\ panel_config = DefaultPanelConfig
    /\ default_params = EvalDefaultParams
    /\ mgr_status = "built"
    /\ panel_enabled = FALSE
    /\ judge_models = <<>>
    /\ api_enabled = TRUE
    /\ fs = NoFiles
    /\ NoHandler
    /\ NoCall
    /\ NoThreads
    /\ evaluation_params \in SeqsUpTo(ParamStrings, MaxParams)
    /\ converted_params = None
    /\ NoTestCase
    /\ NoProcessing
    /\ NoRun

\* _evaluate_turn / _evaluate_conversation build the GEval metric
BuildMetric ==
    /\ converted_params = None
    /\ converted_params' = Some(MetricEvaluationParams(evaluation_params))
    /\ UNCHANGED evaluation_params
    /\ UNCHANGED <<startup_vars, api_enabled, fs, registry_vars, call_vars, conc_vars,
                   data_vars>>

NextParams == BuildMetric

SpecParams == InitParams /\ [][NextParams]_vars

----------------------------------------------------------------------------
(* Startup: the configuration is loaded, then the LLM manager is constructed *)

InitStartup ==
    /\ raw_config = EmptyDict
    /\ cfg_status = "unloaded"
    /\ panel_config = DefaultPanelConfig
    /\ default_params = EmptyDict
    /\ mgr_status = "none"
    /\ panel_enabled = FALSE
    /\ judge_models = <<>>
    /\ api_enabled = TRUE
    /\ fs = NoFiles
    /\ NoHandler
    /\ NoCall
    /\ NoThreads
    /\ NoConversion
    /\ NoTestCase
    /\ NoProcessing
    /\ NoRun

\* SystemConfigExt(panel_of_judges=raw)
LoadConfig ==
    /\ cfg_status = "unloaded"
    /\ \E raw \in RawConfigs :
          /\ raw_config' = raw
          /\ cfg_status' = IF PanelAccepts(raw) THEN "accepted" ELSE "rejected"
          /\ panel_config' = IF PanelAccepts(raw) THEN PanelOfJudgesConfig(raw)
                             ELSE DefaultPanelConfig
    /\ UNCHANGED <<default_params, mgr_status, panel_enabled, judge_models>>
    /\ UNCHANGED <<api_enabled, fs, registry_vars, call_vars, conc_vars, param_vars, data_vars>>

\* DeepEvalLLMManagerExt(model_name, llm_params, panel_config)
ConstructManager ==
    /\ cfg_status = "accepted"
    /\ mgr_status = "none"
    /\ \E d \in DefaultParamSets :
          LET m == ManagerInit(panel_config, d) IN
          /\ default_params' = d
          /\ mgr_status' = m.status
          /\ panel_enabled' = m.panel_enabled
          /\ judge_models' = m.judge_models
    /\ UNCHANGED <<raw_config, cfg_status, panel_config>>
    /\ UNCHANGED <<api_enabled, fs, registry_vars, call_vars, conc_vars, param_vars, data_vars>>

NextStartup == LoadConfig \/ ConstructManager

SpecStartup == InitStartup /\ [][NextStartup]_vars

----------------------------------------------------------------------------
(* Evaluation: the manager is constructed; handlers are constructed and        *)
(* evaluate_metric is called any number of times                              *)

Init ==
    /\ \E raw \in EvalRawConfigs :
          LET m == ManagerInit(PanelOfJudgesConfig(raw), EvalDefaultParams) IN
          /\ raw_config = raw
          /\ cfg_status = "accepted"
          /\ panel_config = PanelOfJudgesConfig(raw)
          /\ default_params = EvalDefaultParams
          /\ mgr_status = m.status
          /\ panel_enabled = m.panel_enabled
          /\ judge_models = m.judge_models
    /\ api_enabled \in BOOLEAN
    /\ fs \in FileSystems
    /\ NoHandler
    /\ NoCall
    /\ NoThreads
    /\ NoConversion
    /\ NoTestCase
    /\ NoProcessing
    /\ NoRun

Next == ConstructHandler \/ EvaluateMetric \/ QueryManager \/ Collect

Spec == Init /\ [][Next]_vars

----------------------------------------------------------------------------
(* Scope: GEvalHandler.evaluate hands a rubric with criteria to the method of  *)
(* the request's level, which builds the test case the judge scores           *)

MaxTurns == 2

\* the TurnData fields a test case reads
TurnInputs ==
    [query : {"q1", "q2"}, response : {None, Some("r1")},
     expected_response : {None, Some("e1")}, contexts : {None, Some(<<"c1">>)}]

\* conversations of 1..MaxTurns turns
Conversations == SeqsUpTo(TurnInputs, MaxTurns) \ {<<>>}

\* turn-level with one turn of the conversation or without turn data, and
\* conversation-level
EvalUnits ==
    { [is_conversation |-> FALSE, turn_data |-> td, conv_data |-> [turns |-> c]] :
        c \in Conversations, td \in {None} \cup {Some(t) : t \in TurnInputs} }
    \cup { [is_conversation |-> TRUE, turn_data |-> None, conv_data |-> [turns |-> c]] :
             c \in Conversations }

\* turn.response or ""
ResponseOrEmpty(turn) ==
    IF turn.response = None \/ turn.response = Some("") THEN "" ELSE turn.response[1]

\* GEvalHandler._evaluate_turn up to the test case
TurnTestCase(turn_data) ==
    IF turn_data = None
    THEN [kind |-> "error", score |-> None,
          reason |-> "Turn data required for turn-level GEval"]
    ELSE [kind |-> "LLMTestCase",
          input |-> turn_data[1].query,
          actual_output |-> ResponseOrEmpty(turn_data[1]),
          expected_output |-> turn_data[1].expected_response,
          context |-> turn_data[1].contexts]

\* mutant of ConversationLoop: each test case is put in front of the list
RECURSIVE ConversationLoopInFront(_, _, _)
ConversationLoopInFront(turns, i, llm_test_cases) ==
    IF i > Len(turns) THEN llm_test_cases
    ELSE ConversationLoopInFront(
             turns, i + 1,
             <<[input |-> turns[i].query, actual_output |-> ResponseOrEmpty(turns[i])]>>
                 \o llm_test_cases)

\* the loop over conv_data.turns of _evaluate_conversation, from turn i on
RECURSIVE ConversationLoop(_, _, _)
ConversationLoop(turns, i, llm_test_cases) ==
    IF i > Len(turns) THEN llm_test_cases
    ELSE ConversationLoop(
             turns, i + 1,
             Append(llm_test_cases,
                    [input |-> turns[i].query, actual_output |-> ResponseOrEmpty(turns[i])]))

\* GEvalHandler._evaluate_conversation up to the test case
ConversationTestCase(conv_data) ==
    [kind |-> "ConversationalTestCase", turns |-> ConversationLoop(conv_data.turns, 1, <<>>)]

InitScope ==
    /\ raw_config = EmptyDict
    /\ cfg_status = "accepted"
    /\ panel_config = DefaultPanelConfig
    /\ default_params = EvalDefaultParams
    /\ mgr_status = "built"
    /\ panel_enabled = FALSE
    /\ judge_models = <<>>
    /\ api_enabled = TRUE
    /\ fs = NoFiles
    /\ NoHandler
    /\ NoCall
    /\ NoThreads
    /\ NoConversion
    /\ geval_call \in {[eval_unit |-> Some(u), test_case |-> None] : u \in EvalUnits}
    /\ NoProcessing
    /\ NoRun

\* the branch on is_conversation at the end of GEvalHandler.evaluate
BuildTestCase ==
    /\ geval_call.eval_unit # None
    /\ geval_call.test_case = None
    /\ geval_call' =
          [geval_call EXCEPT
              !.test_case = Some(IF geval_call.eval_unit[1].is_conversation
                                 THEN ConversationTestCase(geval_call.eval_unit[1].conv_data)
                                 ELSE TurnTestCase(geval_call.eval_unit[1].turn_data))]
    /\ UNCHANGED <<startup_vars, api_enabled, fs, registry_vars, call_vars, conc_vars,
                   param_vars, processor, pipeline>>

NextScope == BuildTestCase

SpecScope == InitScope /\ [][NextScope]_vars

----------------------------------------------------------------------------
(* Processor: ConversationProcessorExt walks a metric list and collects what  *)
(* evaluate_metric returns                                                    *)

MaxMetrics == 3

\* metric lists of up to MaxMetrics identifiers; an identifier may repeat
MetricLists ==
    SeqsUpTo({<<"geval", ":", "m1">>, <<"script", ":", "action", "_", "eval">>},
             MaxMetrics)

\* what evaluate_metric may return for identifier m: None, or a list of no, one
\* or two results
EvaluatorReturns(m) ==
    { None, Some(<<>>),
      Some(<<[metric_identifier |-> m, judge |-> 1]>>),
      Some(<<[metric_identifier |-> m, judge |-> 1],
             [metric_identifier |-> m, judge |-> 2]>>) }

\* mutant of ExtendResults: the returned list replaces the results so far
ExtendResultsReplace(acc, result) ==
    IF result # None /\ result[1] # <<>> THEN result[1] ELSE acc

\* if result: results.extend(result)
ExtendResults(acc, result) ==
    IF result # None /\ result[1] # <<>> THEN acc \o result[1] ELSE acc

InitProcessor ==
    /\ raw_config = EmptyDict
    /\ cfg_status = "accepted"
    /\ panel_config = DefaultPanelConfig
    /\ default_params = EvalDefaultParams
    /\ mgr_status = "built"
    /\ panel_enabled = FALSE
    /\ judge_models = <<>>
    /\ api_enabled = TRUE
    /\ fs = NoFiles
    /\ NoHandler
    /\ NoCall
    /\ NoThreads
    /\ NoConversion
    /\ NoTestCase
    /\ processor \in {[level |-> l, metric_list |-> ms, calls_made |-> <<>>,
                        returned |-> <<>>, results |-> <<>>] :
                          l \in {"turn", "conversation"}, ms \in MetricLists}
    /\ NoRun

\* one pass of the loop body of _evaluate_turn (level "turn") or of
\* _evaluate_conversation (level "conversation")
ProcessMetric(level) ==
    /\ processor.level = level
    /\ Len(processor.calls_made) < Len(processor.metric_list)
    /\ LET metric_identifier == processor.metric_list[Len(processor.calls_made) + 1] IN
       \E result \in EvaluatorReturns(metric_identifier) :
          processor' =
              [processor EXCEPT
                  !.calls_made = Append(@, [metric_identifier |-> metric_identifier,
                                            is_conversation |-> level = "conversation"]),
                  !.returned = Append(@, result),
                  !.results = ExtendResults(@, result)]
    /\ UNCHANGED <<startup_vars, api_enabled, fs, registry_vars, call_vars, conc_vars,
                   param_vars, geval_call, pipeline>>

NextProcessor == ProcessMetric("turn") \/ ProcessMetric("conversation")

SpecProcessor == InitProcessor /\ [][NextProcessor]_vars

----------------------------------------------------------------------------
(* Run: run_evaluation applies the default GEval metrics of the system        *)
(* configuration to the evaluation data before evaluating                     *)

MaxApplications == 2

\* a metric list of the evaluation data: absent, empty, or given
LoadedMetricLists ==
    {None, Some(<<>>), Some(<<"geval:a">>), Some(<<"ragas:c", "geval:b">>)}

\* GEvalConfig: enabled and the two default lists (a default may repeat)
GEvalConfigs ==
    [enabled : BOOLEAN,
     default_turn_metrics : {<<>>, <<"geval:a", "geval:b">>, <<"geval:b", "geval:b">>},
     default_conversation_metrics :
         {<<>>, <<"geval:a", "geval:b">>, <<"geval:b", "geval:b">>}]

\* two conversations, of two turns and of one turn
LoadedData ==
    { << [conversation_metrics |-> cm1,
          turns |-> <<[turn_metrics |-> t1], [turn_metrics |-> t2]>>],
         [conversation_metrics |-> cm2, turns |-> <<[turn_metrics |-> t1]>>] >> :
        cm1 \in LoadedMetricLists, cm2 \in LoadedMetricLists,
        t1 \in LoadedMetricLists, t2 \in LoadedMetricLists }

\* mutant of NewMetrics: every default is taken
RECURSIVE NewMetricsUnfiltered(_, _, _, _)
NewMetricsUnfiltered(defaults, existing, i, new_metrics) ==
    IF i > Len(defaults) THEN new_metrics
    ELSE NewMetricsUnfiltered(defaults, existing, i + 1, Append(new_metrics, defaults[i]))

\* [m for m in defaults if m not in existing], from default i on
RECURSIVE NewMetrics(_, _, _, _)
NewMetrics(defaults, existing, i, new_metrics) ==
    IF i > Len(defaults) THEN new_metrics
    ELSE NewMetrics(defaults, existing, i + 1,
                    IF defaults[i] \in existing THEN new_metrics
                    ELSE Append(new_metrics, defaults[i]))

\* the assignment to conversation_metrics / turn_metrics
PrependDefaults(metrics, defaults) ==
    IF metrics = None THEN Some(defaults)
    ELSE Some(NewMetrics(defaults, Range(metrics[1]), 1, <<>>) \o metrics[1])

\* ExtendedEvaluationPipeline._apply_default_geval_metrics
_apply_default_geval_metrics(geval_config, data) ==
    LET default_turn == geval_config.default_turn_metrics
        default_conv == geval_config.default_conversation_metrics
    IN  IF ~geval_config.enabled THEN data
        ELSE IF default_turn = <<>> /\ default_conv = <<>> THEN data
        ELSE [c \in 1..Len(data) |->
                [conversation_metrics |->
                     IF default_conv # <<>>
                     THEN PrependDefaults(data[c].conversation_metrics, default_conv)
                     ELSE data[c].conversation_metrics,
                 turns |->
                     [t \in 1..Len(data[c].turns) |->
                         [turn_metrics |->
                              IF default_turn # <<>>
                              THEN PrependDefaults(data[c].turns[t].turn_metrics,
                                                   default_turn)
                              ELSE data[c].turns[t].turn_metrics]]]]

InitRun ==
    /\ raw_config = EmptyDict
    /\ cfg_status = "accepted"
    /\ panel_config = DefaultPanelConfig
    /\ default_params = EvalDefaultParams
    /\ mgr_status = "built"
    /\ panel_enabled = FALSE
    /\ judge_models = <<>>
    /\ api_enabled = TRUE
    /\ fs = NoFiles
    /\ NoHandler
    /\ NoCall
    /\ NoThreads
    /\ NoConversion
    /\ NoTestCase
    /\ NoProcessing
    /\ pipeline \in {[geval_cfg |-> Some(g), evaluation_data |-> d,
                       original_data |-> d, applied |-> 0] :
                         g \in GEvalConfigs, d \in LoadedData}

\* run_evaluation is called on the evaluation data (again)
ApplyDefaults ==
    /\ pipeline.geval_cfg # None
    /\ pipeline.applied < MaxApplications
    /\ pipeline' =
          [pipeline EXCEPT
              !.evaluation_data = _apply_default_geval_metrics(pipeline.geval_cfg[1], @),
              !.applied = @ + 1]
    /\ UNCHANGED <<startup_vars, api_enabled, fs, registry_vars, call_vars, conc_vars,
                   param_vars, geval_call, processor>>

NextRun == ApplyDefaults

SpecRun == InitRun /\ [][NextRun]_vars

----------------------------------------------------------------------------
(* Properties *)

\* the judges of the call and the number of them
CallJudges == get_llms(panel_enabled, judge_models, default_params)

\* a returned call in which the panel's judges were invoked
PanelCall == pc = "returned" /\ panel_enabled /\ invoked # <<>>

\* the threshold a score of the call is compared against
UsedThreshold == IF eff_threshold = None THEN DefaultThreshold ELSE eff_threshold[1]

C2_StatusInvariant ==
    (pc = "returned" /\ verdicts # None) =>
        \A i \in 1..Len(verdicts[1]) :
            LET v == verdicts[1][i] IN
            /\ v.result \in {"PASS", "FAIL", "ERROR"}
            /\ (v.result = "ERROR") <=> (v.score = None)
            /\ v.score # None =>
                  /\ (v.result = "PASS") <=> (v.score[1] >= UsedThreshold)
                  /\ (v.result = "FAIL") <=> (v.score[1] < UsedThreshold)

\* C2 witness: one call returns a PASS at score = threshold, a FAIL and an ERROR
C2_Witness ==
    /\ pc = "returned" /\ verdicts # None
    /\ eff_threshold = Some(8)
    /\ \E i, j, k \in 1..Len(verdicts[1]) :
          /\ verdicts[1][i].result = "PASS" /\ verdicts[1][i].score = Some(8)
          /\ verdicts[1][j].result = "FAIL" /\ verdicts[1][j].score = Some(6)
          /\ verdicts[1][k].result = "ERROR"

\* C3 (as claimed): the judge_id values of an accepted judge list are pairwise
\* distinct.
C3_JudgeIdsDistinct ==
    cfg_status = "accepted" =>
        \A i, j \in 1..Len(panel_config.judges) :
            i # j => panel_config.judges[i].judge_id # panel_config.judges[j].judge_id

\* C4: in a panel call the judges are invoked in configuration order, and the i-th
\* tuple and the i-th verdict are those of the i-th configured judge, whichever
\* judges fail.
C4_RegistrationOrder ==
    PanelCall =>
        /\ Len(panel_config.judges) = Len(handler_result)
        /\ Len(panel_config.judges) = Len(verdicts[1])
        /\ \A i \in 1..Len(panel_config.judges) :
              /\ invoked[i] = panel_config.judges[i].judge_id[1]
              /\ handler_result[i].judge_id = panel_config.judges[i].judge_id[1]
              /\ handler_result[i].reason.judge = i
              /\ verdicts[1][i].reason.judge = i
              /\ verdicts[1][i].judge_id \in {None, panel_config.judges[i].judge_id}

\* C4 witness: a panel of at least two judges whose first judge fails and whose
\* last judge scores
C4_Witness ==
    /\ PanelCall
    /\ Len(judge_models) >= 2
    /\ outcomes[1].raised
    /\ ~outcomes[Len(judge_models)].raised
    /\ verdicts[1][Len(judge_models)].score # None

\* the rubric sources of the call's request
CallTurnDefines ==
    /\ ~request[1].is_conversation
    /\ request[1].turn_data # None
    /\ request[1].turn_data[1].turn_metrics_metadata # None
    /\ M1Key \in DOMAIN request[1].turn_data[1].turn_metrics_metadata[1]

CallConversationDefines ==
    /\ request[1].conv_data.conversation_metrics_metadata # None
    /\ M1Key \in DOMAIN request[1].conv_data.conversation_metrics_metadata[1]

CallRegistryDefines == <<"m1">> \in DOMAIN registry[1]

\* C5: for the metric m1 resolution returns the turn's definition when a single
\* turn is evaluated and its metadata defines "geval:m1", else the conversation's
\* definition when its metadata defines it, else the registry's definition, else
\* nothing.
C5_ResolutionPriority ==
    (pc = "returned" /\ request[1].metric_identifier = M1Key) =>
        /\ CallTurnDefines => resolved = Some(TurnRubric)
        /\ (~CallTurnDefines /\ CallConversationDefines)
              => resolved = Some(ConversationRubric)
        /\ (~CallTurnDefines /\ ~CallConversationDefines /\ CallRegistryDefines)
              => resolved = Some(registry[1][<<"m1">>])
        /\ (~CallTurnDefines /\ ~CallConversationDefines /\ ~CallRegistryDefines)
              => resolved = None

\* C5 witness: the three sources define m1 differently and the turn's is returned
C5_Witness ==
    /\ pc = "returned" /\ request[1].metric_identifier = M1Key
    /\ CallTurnDefines /\ CallConversationDefines /\ CallRegistryDefines
    /\ registry[1][<<"m1">>] \notin {TurnRubric, ConversationRubric}
    /\ resolved = Some(TurnRubric)

\* the request that evaluate_metric skips: a script metric while the API is off
SkippedCall ==
    /\ StartsWith(request[1].metric_identifier, <<"script", ":">>)
    /\ ~api_enabled

\* C6 (as claimed): with the panel disabled there is one handle, "primary", and
\* every call returns exactly one verdict, whose judge_id is null.
C6_AlwaysOneVerdict ==
    (pc = "returned" /\ ~panel_enabled) =>
        /\ Len(CallJudges) = 1
        /\ CallJudges[1].judge_id = <<"primary">>
        /\ verdicts # None
        /\ Len(verdicts[1]) = 1
        /\ verdicts[1][1].judge_id = None

\* C6 (amended): with the panel disabled there is one handle, "primary"; a call
\* returns None for a script metric while the API is disabled, and otherwise
\* exactly one verdict, whose judge_id is null.
C6_NonPanel ==
    (pc = "returned" /\ ~panel_enabled) =>
        /\ Len(CallJudges) = 1
        /\ CallJudges[1].judge_id = <<"primary">>
        /\ IF SkippedCall THEN verdicts = None
           ELSE /\ verdicts # None
                /\ Len(verdicts[1]) = 1
                /\ verdicts[1][1].judge_id = None

\* C6 witness: the single judge was invoked and its score is in the one verdict
C6_Witness ==
    /\ pc = "returned" /\ ~panel_enabled
    /\ invoked = << <<"primary">> >>
    /\ Len(verdicts[1]) = 1
    /\ verdicts[1][1].score # None
    /\ verdicts[1][1].judge_id = None

\* the parameters a judge may set itself
JudgeParams == {"max_tokens", "timeout", "num_retries"}

Fallback(p) ==
    IF p = "max_tokens" THEN FallbackMaxTokens
    ELSE IF p = "timeout" THEN FallbackTimeout
    ELSE FallbackNumRetries

\* a manager constructed for an enabled panel that has judges
PanelStarted ==
    /\ cfg_status = "accepted"
    /\ mgr_status # "none"
    /\ panel_config.enabled
    /\ Len(panel_config.judges) > 0

\* C7 (as claimed): a parameter the judge's own configuration gives is the value
\* the judge model is built with, whatever the defaults.
C7_PerJudgeValueWins ==
    PanelStarted /\ mgr_status = "built" =>
        \A i \in 1..Len(panel_config.judges) : \A p \in JudgeParams :
           panel_config.judges[i][p] # None
               => judge_models[i][p] = panel_config.judges[i][p]

\* C8 (as claimed): a parameter the judge omits is built with the default when
\* the default is present, and with the hardcoded fallback (512 / 300 / 3) when
\* the default is missing or null; it is never absent, so a panel whose judges
\* omit every parameter is always built.
C8_FallbackComplete ==
    PanelStarted =>
        /\ (\A i \in 1..Len(panel_config.judges) : \A p \in JudgeParams :
                panel_config.judges[i][p] = None) => mgr_status = "built"
        /\ mgr_status = "built" =>
              \A i \in 1..Len(panel_config.judges) : \A p \in JudgeParams :
                 panel_config.judges[i][p] = None =>
                     judge_models[i][p] =
                         IF p \in DOMAIN default_params /\ default_params[p] # None
                         THEN default_params[p]
                         ELSE Some(Fallback(p))

\* C9 (as claimed): a configuration with enabled = true and no judges (the list
\* empty or omitted) is rejected when it is loaded.
C9_EnabledWithoutJudgesRejected ==
    ( /\ cfg_status # "unloaded"
      /\ DictGet(raw_config, "enabled", FALSE)
      /\ Len(DictGet(raw_config, "judges", <<>>)) = 0 )
        => cfg_status = "rejected"

\* C10: once the shared registry is set no handler construction and no resolution
\* call changes it, and a registry file is opened at most once.
C10_RegistryWriteOnce ==
    [][ /\ registry # None => registry' = registry
        /\ file_reads' <= 1 ]_vars

\* C10 witness: a later construction names a file whose content differs from the
\* registry, and the registry is still the one set first
C10_Witness ==
    /\ handlers >= 2
    /\ registry # None
    /\ ~ctor.raised
    /\ LET path == IF ctor.arg # None THEN ctor.arg
                   ELSE FirstExisting(fs, possible_paths, 1)
       IN  /\ path # None
           /\ path # registry_path
           /\ fs[path[1]].exists /\ fs[path[1]].parses
           /\ fs[path[1]].content # registry[1]

\* C11 (as claimed): under concurrent construction no load assigns the registry
\* after another load has assigned it, so that no reader of the registry sees
\* two different mappings.
C11_NoReaderSeesTwoMappings == Cardinality(observed) <= 1

\* the call is for a GEval metric; CallName is its name, the identifier without
\* the framework prefix
CallIsGEval ==
    /\ pc = "returned"
    /\ StartsWith(request[1].metric_identifier, <<"geval", ":">>)

CallName ==
    SubSeq(request[1].metric_identifier, 3, Len(request[1].metric_identifier))

\* the call's turn or conversation metadata has an entry "geval:<CallName>"
CallMetadataDefines ==
    \/ /\ ~request[1].is_conversation
       /\ request[1].turn_data # None
       /\ request[1].turn_data[1].turn_metrics_metadata # None
       /\ MetricKey(CallName) \in DOMAIN request[1].turn_data[1].turn_metrics_metadata[1]
    \/ /\ request[1].conv_data.conversation_metrics_metadata # None
       /\ MetricKey(CallName)
              \in DOMAIN request[1].conv_data.conversation_metrics_metadata[1]

\* the first construction found no file at the location(s) it tried
FirstConstructionFoundNoFile ==
    /\ handlers = 1
    /\ IF ctor.arg # None THEN ~fs[ctor.arg[1]].exists
       ELSE \A i \in 1..Len(possible_paths) : ~fs[possible_paths[i]].exists

\* C12 (as claimed): when no registry file exists where the first construction
\* looks, with an explicit path or with the candidate list, the construction does
\* not raise and leaves the registry the empty mapping, and resolving a metric
\* without a metadata entry then finds nothing.
C12_MissingFileNoRaise ==
    FirstConstructionFoundNoFile =>
        /\ ~ctor.raised
        /\ registry = Some(EmptyDict)
        /\ (CallIsGEval /\ ~CallMetadataDefines) => resolved = None

\* C13: a GEval metric (a plain name) that neither the call's metadata nor the
\* registry defines resolves to None, and evaluate_metric returns exactly one
\* verdict, an ERROR that says the configuration was not found; no judge is
\* invoked and nothing is raised.
C13_NotFoundIsOneError ==
    ( /\ CallIsGEval
      /\ ":" \notin Range(CallName)
      /\ ~CallMetadataDefines
      /\ CallName \notin DOMAIN registry[1] ) =>
        /\ resolved = None
        /\ invoked = <<>>
        /\ verdicts # None
        /\ Len(verdicts[1]) = 1
        /\ verdicts[1][1].result = "ERROR"
        /\ verdicts[1][1].score = None
        /\ verdicts[1][1].reason = Reason("GEval configuration not found", 0)

\* C13 witness: a panel of several judges is asked for a metric defined nowhere
C13_Witness ==
    /\ CallIsGEval
    /\ CallName = <<"m2">>
    /\ panel_enabled /\ Len(judge_models) >= 2
    /\ resolved = None
    /\ Len(verdicts[1]) = 1
    /\ verdicts[1][1].result = "ERROR"

\* C14: when the resolved rubric has no criteria text (the key missing or the
\* text empty) the handler returns a single result without a score, whatever the
\* number of judges, no judge is invoked, and the one verdict is an ERROR.
C14_NoCriteriaIsOneError ==
    ( /\ pc = "returned"
      /\ resolved \in {Some(RubricWithoutCriteria), Some(RubricEmptyCriteria)} ) =>
        /\ invoked = <<>>
        /\ Len(handler_result) = 1
        /\ handler_result[1].score = None
        /\ handler_result[1].reason = Reason("GEval requires criteria", 0)
        /\ verdicts # None
        /\ Len(verdicts[1]) = 1
        /\ verdicts[1][1].result = "ERROR"
        /\ verdicts[1][1].score = None

\* C14 witness: three judges are configured and the rubric's criteria is empty
C14_Witness ==
    /\ pc = "returned"
    /\ panel_enabled /\ Len(judge_models) = 3
    /\ resolved = Some(RubricEmptyCriteria)
    /\ invoked = <<>>
    /\ Len(verdicts[1]) = 1

\* the framework prefix of the call's identifier, when it has one
CallFramework ==
    SubSeq(request[1].metric_identifier, 1, ColonIndex(request[1].metric_identifier, 1) - 1)

\* C15: for an identifier "framework:name" whose framework has no handler,
\* evaluate_metric returns exactly one verdict, an ERROR without score and with a
\* null judge_id, and calls no handler and no judge.
C15_UnsupportedFramework ==
    ( /\ pc = "returned"
      /\ ColonIndex(request[1].metric_identifier, 1) > 1
      /\ CallFramework \notin
            { <<"ragas">>, <<"deepeval">>, <<"geval">>, <<"custom">>, <<"script">> } ) =>
        /\ handler_result = <<>>
        /\ invoked = <<>>
        /\ resolve_arg = None
        /\ verdicts # None
        /\ Len(verdicts[1]) = 1
        /\ verdicts[1][1].result = "ERROR"
        /\ verdicts[1][1].score = None
        /\ verdicts[1][1].judge_id = None
        /\ verdicts[1][1].reason = Reason("Unsupported framework", 0)

\* C15 witness: a panel is configured and the request is for "bogus:x"
C15_Witness ==
    /\ pc = "returned"
    /\ request[1].metric_identifier = <<"bogus", ":", "x">>
    /\ panel_enabled
    /\ Len(verdicts[1]) = 1
    /\ verdicts[1][1].result = "ERROR"

\* C16 (as claimed, for a rubric that the registry supplies): with the judges
\* [(a, m1), (b, m2)], a resolved rubric whose threshold is 0.7, m1 scoring 0.8
\* and m2 scoring 0.6, the verdicts are [(a_m1, PASS, 0.8), (b_m2, FAIL, 0.6)].
C16_RubricThresholdDecides ==
    ( /\ PanelCall
      /\ Len(judge_models) = 2
      /\ resolved = Some(RegistryRubric)
      /\ RegistryRubric.threshold = 7
      /\ outcomes = <<Ok(8), Ok(6)>> ) =>
        /\ Len(verdicts[1]) = 2
        /\ verdicts[1][1].judge_id = Some(<<"a", "_", "m1">>)
        /\ verdicts[1][1].result = "PASS"
        /\ verdicts[1][1].score = Some(8)
        /\ verdicts[1][2].judge_id = Some(<<"b", "_", "m2">>)
        /\ verdicts[1][2].result = "FAIL"
        /\ verdicts[1][2].score = Some(6)

\* the call's own turn or conversation metadata has an entry for its identifier
CallIdentifierInMetadata ==
    \/ /\ request[1].turn_data # None
       /\ request[1].turn_data[1].turn_metrics_metadata # None
       /\ request[1].metric_identifier
              \in DOMAIN request[1].turn_data[1].turn_metrics_metadata[1]
    \/ /\ request[1].conv_data.conversation_metrics_metadata # None
       /\ request[1].metric_identifier
              \in DOMAIN request[1].conv_data.conversation_metrics_metadata[1]

\* C17 (as claimed, for a request whose own metadata has no entry for the
\* metric): the threshold recorded in a verdict is null when its status is ERROR
\* and is otherwise the value its score was compared against.
C17_RecordedThreshold ==
    (pc = "returned" /\ verdicts # None /\ ~CallIdentifierInMetadata) =>
        \A i \in 1..Len(verdicts[1]) :
            IF verdicts[1][i].result = "ERROR"
            THEN verdicts[1][i].threshold = None
            ELSE verdicts[1][i].threshold = Some(UsedThreshold)

\* every entry of the rubric's evaluation_params maps onto LLMTestCaseParams
AllEntriesMap ==
    \A i \in 1..Len(evaluation_params) : EnumLookup(evaluation_params[i]) # None

CallNameAfterFramework ==
    SubSeq(request[1].metric_identifier,
           ColonIndex(request[1].metric_identifier, 1) + 1,
           Len(request[1].metric_identifier))

\* a returned call whose identifier is "framework:name" and that resolved a rubric
ResolvingCall ==
    /\ pc = "returned"
    /\ ColonIndex(request[1].metric_identifier, 1) > 1
    /\ resolve_arg # None

\* every verdict of the call carries the request's identifier unchanged
VerdictsKeepIdentifier ==
    verdicts # None =>
        \A i \in 1..Len(verdicts[1]) :
            verdicts[1][i].metric_identifier = request[1].metric_identifier

\* C19 (as claimed): resolution receives the name with the framework prefix
\* stripped, and every verdict carries the request's identifier unchanged.
C19_PrefixStripped ==
    /\ ResolvingCall => resolve_arg = Some(CallNameAfterFramework)
    /\ pc = "returned" => VerdictsKeepIdentifier

\* C19 (amended): resolution receives the name with the framework prefix
\* stripped and, when what is left begins with "geval:", with that prefix removed
\* once more; every verdict carries the request's identifier unchanged.
C19_PrefixStrippedOnceMore ==
    /\ ResolvingCall =>
          LET n == CallNameAfterFramework IN
          resolve_arg =
              Some(IF Len(n) >= 2 /\ n[1] = "geval" /\ n[2] = ":"
                   THEN SubSeq(n, 3, Len(n)) ELSE n)
    /\ pc = "returned" => VerdictsKeepIdentifier

\* C19 witness: a panel answers "geval:geval:m1"; resolution received "m1" and
\* the verdicts carry "geval:geval:m1"
C19_Witness ==
    /\ PanelCall
    /\ request[1].metric_identifier = <<"geval", ":", "geval", ":", "m1">>
    /\ resolve_arg = Some(<<"m1">>)
    /\ Len(verdicts[1]) >= 2
    /\ verdicts[1][2].metric_identifier = <<"geval", ":", "geval", ":", "m1">>

\* the identifiers of the loaded judge list after derivation, before suffixing
IdsAfterDerivation ==
    [i \in 1..Len(raw_config["judges"]) |->
        AutoGenerateIds(raw_config["judges"])[i].judge_id[1]]

\* judge i is the k-th judge, in input order, with its identifier
Occurrence(i) ==
    Cardinality({j \in 1..i : IdsAfterDerivation[j] = IdsAfterDerivation[i]})

\* C20: in an accepted judge list the first judge with an identifier keeps it and
\* the k-th judge with that identifier (k >= 2) gets it followed by "_k".
C20_KthOccurrenceSuffix ==
    (cfg_status = "accepted" /\ "judges" \in DOMAIN raw_config) =>
        \A i \in 1..Len(panel_config.judges) :
            panel_config.judges[i].judge_id =
                Some(IF Occurrence(i) = 1 THEN IdsAfterDerivation[i]
                     ELSE IdsAfterDerivation[i] \o <<"_">> \o IntToStr(Occurrence(i)))

\* C20 witness: three judges derive the same identifier
C20_Witness ==
    /\ cfg_status = "accepted"
    /\ Len(panel_config.judges) = 3
    /\ panel_config.judges[1].judge_id = Some(<<"a", "_", "m">>)
    /\ panel_config.judges[2].judge_id = Some(<<"a", "_", "m", "_", "2">>)
    /\ panel_config.judges[3].judge_id = Some(<<"a", "_", "m", "_", "3">>)

\* the model name of raw judge i with each "/", ":" and "." written as "_"
SanitizedModel(i) ==
    [k \in 1..Len(raw_config["judges"][i].model) |->
        IF raw_config["judges"][i].model[k] \in {"/", ":", "."} THEN "_"
        ELSE raw_config["judges"][i].model[k]]

\* the identifier raw judge i is expected to have before collision handling
ExpectedIdBeforeCollisions(i) ==
    IF raw_config["judges"][i].judge_id \in {None, Some(<<>>)}
    THEN raw_config["judges"][i].provider \o <<"_">> \o SanitizedModel(i)
    ELSE raw_config["judges"][i].judge_id[1]

\* judge i is the first judge of the list with its expected identifier
FirstWithExpectedId(i) ==
    \A j \in 1..(i - 1) : ExpectedIdBeforeCollisions(j) # ExpectedIdBeforeCollisions(i)

\* C21: in an accepted judge list, a judge without identifier has provider, "_"
\* and the model with "/", ":" and "." replaced by "_", and a judge with an
\* identifier has that identifier: as its whole identifier when no earlier judge
\* has the same one, and as the part before the collision suffix otherwise.
C21_DerivedIdentifier ==
    (cfg_status = "accepted" /\ "judges" \in DOMAIN raw_config) =>
        \A i \in 1..Len(panel_config.judges) :
            LET id == panel_config.judges[i].judge_id[1]
                e == ExpectedIdBeforeCollisions(i)
            IN  /\ Len(id) >= Len(e)
                /\ SubSeq(id, 1, Len(e)) = e
                /\ FirstWithExpectedId(i) => id = e
                /\ ~FirstWithExpectedId(i) => (Len(id) > Len(e) /\ id[Len(e) + 1] = "_")

\* C21 witness: a model with "/" and ":" and a model with "." are sanitized, and
\* a judge with an identifier of its own keeps it
C21_Witness ==
    /\ cfg_status = "accepted"
    /\ "judges" \in DOMAIN raw_config
    /\ Len(raw_config["judges"]) = 3
    /\ raw_config["judges"][1].judge_id = None
    /\ raw_config["judges"][1].model = <<"n", "/", "x", ":", "y">>
    /\ panel_config.judges[1].judge_id = Some(<<"b", "_", "n", "_", "x", "_", "y">>)
    /\ raw_config["judges"][2].judge_id = None
    /\ raw_config["judges"][2].model = <<"m", ".", "2">>
    /\ panel_config.judges[2].judge_id = Some(<<"a", "_", "m", "_", "2">>)
    /\ raw_config["judges"][3].judge_id = Some(<<"primary">>)
    /\ panel_config.judges[3].judge_id = Some(<<"primary">>)

\* the loaded configuration gives an aggregation method or an apply_to entry
\* outside the allowed values
GivesOtherValue ==
    \/ /\ "aggregation_method" \in DOMAIN raw_config
       /\ raw_config["aggregation_method"] \notin {"mean", "median", "weighted_mean"}
    \/ /\ "apply_to" \in DOMAIN raw_config
       /\ \E i \in 1..Len(raw_config["apply_to"]) :
             raw_config["apply_to"][i] \notin {"geval", "custom", "deepeval"}

\* C22: an accepted panel configuration has aggregation_method in {mean, median,
\* weighted_mean} and every apply_to entry in {geval, custom, deepeval}; a
\* configuration that gives any other value is rejected at load.
C22_AllowedValues ==
    /\ cfg_status = "accepted" =>
          /\ panel_config.aggregation_method \in {"mean", "median", "weighted_mean"}
          /\ \A i \in 1..Len(panel_config.apply_to) :
                panel_config.apply_to[i] \in {"geval", "custom", "deepeval"}
    /\ (cfg_status # "unloaded" /\ GivesOtherValue) => cfg_status = "rejected"

\* C22 witness: an allowed aggregation method with an apply_to entry "ragas" is
\* rejected at load
C22_Witness ==
    /\ cfg_status = "rejected"
    /\ "apply_to" \in DOMAIN raw_config
    /\ raw_config["apply_to"] = <<"geval", "ragas">>
    /\ raw_config["aggregation_method"] = "median"

\* C30: a panel configuration with enabled=false is accepted at load whether its
\* judges list is omitted, explicitly empty or non-empty (the judges given are
\* valid entries and no other field is given).
C30_DisabledAccepted ==
    ( /\ cfg_status # "unloaded"
      /\ DOMAIN raw_config \subseteq {"enabled", "judges"}
      /\ "enabled" \in DOMAIN raw_config
      /\ raw_config["enabled"] = FALSE
      /\ "judges" \in DOMAIN raw_config =>
            \A i \in 1..Len(raw_config["judges"]) :
                /\ Len(raw_config["judges"][i].provider) >= 1
                /\ Len(raw_config["judges"][i].model) >= 1
                /\ raw_config["judges"][i].max_tokens = None
                /\ raw_config["judges"][i].timeout = None
                /\ raw_config["judges"][i].num_retries = None )
        => cfg_status = "accepted"

\* a returned call, with the panel enabled, for a metric of a panel family that
\* was scored: a standard DeepEval metric, or a GEval metric whose judges ran,
\* and no invocation failed
ScoredFamilyCall ==
    /\ pc = "returned"
    /\ panel_enabled
    /\ Len(judge_models) >= 1
    /\ ColonIndex(request[1].metric_identifier, 1) > 0
    /\ \/ CallFramework = <<"deepeval">>
       \/ CallFramework = <<"geval">> /\ invoked # <<>>
    /\ \A i \in 1..Len(outcomes) : ~outcomes[i].raised /\ outcomes[i].score # None

\* C23: with the panel enabled, a scored metric has one result per configured
\* judge if its family is listed in apply_to, and one result if it is not.
C23_ApplyToRouting ==
    ScoredFamilyCall =>
        /\ verdicts # None
        /\ Len(verdicts[1]) =
              IF \E i \in 1..Len(panel_config.apply_to) :
                     <<panel_config.apply_to[i]>> = CallFramework
              THEN Len(judge_models)
              ELSE 1

\* C29: in a panel call in which every judge scored, the verdict of judge k
\* carries a non-null judge_id equal to the identifier judge k has in the
\* validated configuration.
C29_VerdictCarriesConfiguredId ==
    (PanelCall /\ \A k \in 1..Len(outcomes) : ~outcomes[k].raised) =>
        /\ Len(verdicts[1]) = Len(panel_config.judges)
        /\ \A k \in 1..Len(panel_config.judges) :
              /\ verdicts[1][k].judge_id # None
              /\ verdicts[1][k].judge_id = panel_config.judges[k].judge_id

\* the returned call's identifier has no ":" (the split cannot be unpacked)
CallWithoutColon ==
    pc = "returned" /\ \A i \in 1..Len(request[1].metric_identifier) :
                           request[1].metric_identifier[i] # ":"

\* the returned call reached a handler whose evaluate threw: a one-pair handler,
\* or the standard DeepEval route with an exception it does not catch
CallHandlerThrew ==
    /\ pc = "returned"
    /\ ~CallWithoutColon
    /\ outcomes[1].raised
    /\ \/ CallFramework \in {<<"ragas">>, <<"custom">>}
       \/ CallFramework = <<"script">> /\ api_enabled
       \/ /\ request[1].metric_identifier
                = <<"deepeval", ":", "conversation", "_", "completeness">>
          /\ ~outcomes[1].caught

\* C24: evaluate_metric returns, for every request, None or a non-empty list of
\* verdicts; for an identifier without ":" and for a handler that threw, the list
\* is one ERROR verdict without score that names the evaluation error.
C24_NeverRaises ==
    pc = "returned" =>
        /\ verdicts = None \/ (Len(verdicts) = 1 /\ Len(verdicts[1]) >= 1)
        /\ (CallWithoutColon \/ CallHandlerThrew) =>
              /\ verdicts # None
              /\ Len(verdicts[1]) = 1
              /\ verdicts[1][1].result = "ERROR"
              /\ verdicts[1][1].score = None
              /\ verdicts[1][1].judge_id = None
              /\ verdicts[1][1].reason = Reason("Evaluation error", 0)
              /\ verdicts[1][1].metric_identifier = request[1].metric_identifier

\* C24 witness: the standard DeepEval metric throws an exception its route does
\* not catch and the call returns one ERROR verdict
C24_Witness ==
    /\ CallHandlerThrew
    /\ CallFramework = <<"deepeval">>
    /\ handler_result = <<>>
    /\ verdicts # None
    /\ verdicts[1][1].result = "ERROR"
    /\ verdicts[1][1].reason = Reason("Evaluation error", 0)

\* C25: a built manager in panel mode holds exactly one handle per configured
\* judge, in configuration order; no getter call and no evaluation call changes
\* the handle list; and every get_llms call returns that list (the one "primary"
\* handle when the panel is off).
C25_HandlesBuiltOnce ==
    /\ []((mgr_status = "built" /\ panel_enabled) =>
             /\ Len(judge_models) = Len(panel_config.judges)
             /\ \A i \in 1..Len(judge_models) :
                   /\ judge_models[i].judge_id = panel_config.judges[i].judge_id[1]
                   /\ judge_models[i].provider = panel_config.judges[i].provider
                   /\ judge_models[i].model = panel_config.judges[i].model)
    /\ [][judge_models' = judge_models]_vars
    /\ []((pc = "replied" /\ reply[1].call = "get_llms") =>
             IF panel_enabled
             THEN reply[1].value = judge_models
             ELSE /\ Len(reply[1].value) = 1
                  /\ reply[1].value[1].judge_id = <<"primary">>)

\* C25 witness: after a handler construction, get_llms returns the three handles
\* of a three-judge panel
C25_Witness ==
    /\ pc = "replied"
    /\ reply[1].call = "get_llms"
    /\ handlers >= 1
    /\ Len(panel_config.judges) = 3
    /\ Len(reply[1].value) = 3

\* C26: a turn-level request builds its test case from the supplied turn alone
\* (query, response, expected response, contexts) and gives an error result
\* without score when no turn is supplied; a conversation-level request builds one
\* multi-turn case with one entry per turn of the conversation, in turn order.
C26_ScopeDecides ==
    geval_call.test_case # None =>
        IF geval_call.eval_unit[1].is_conversation
        THEN /\ geval_call.test_case[1].kind = "ConversationalTestCase"
             /\ Len(geval_call.test_case[1].turns) = Len(geval_call.eval_unit[1].conv_data.turns)
             /\ \A i \in 1..Len(geval_call.eval_unit[1].conv_data.turns) :
                   LET turn == geval_call.eval_unit[1].conv_data.turns[i] IN
                   /\ geval_call.test_case[1].turns[i].input = turn.query
                   /\ geval_call.test_case[1].turns[i].actual_output =
                          IF turn.response = None THEN "" ELSE turn.response[1]
        ELSE IF geval_call.eval_unit[1].turn_data = None
        THEN /\ geval_call.test_case[1].kind = "error"
             /\ geval_call.test_case[1].score = None
        ELSE LET turn == geval_call.eval_unit[1].turn_data[1] IN
             /\ geval_call.test_case[1].kind = "LLMTestCase"
             /\ geval_call.test_case[1].input = turn.query
             /\ geval_call.test_case[1].actual_output =
                    IF turn.response = None THEN "" ELSE turn.response[1]
             /\ geval_call.test_case[1].expected_output = turn.expected_response
             /\ geval_call.test_case[1].context = turn.contexts

\* C26 witness: a conversation of two different turns becomes a multi-turn case
\* of two entries
C26_Witness ==
    /\ geval_call.test_case # None
    /\ geval_call.eval_unit[1].is_conversation
    /\ Len(geval_call.eval_unit[1].conv_data.turns) = 2
    /\ geval_call.eval_unit[1].conv_data.turns[1].query = "q1"
    /\ geval_call.eval_unit[1].conv_data.turns[2].query = "q2"
    /\ Len(geval_call.test_case[1].turns) = 2
    /\ geval_call.test_case[1].turns[2].input = "q2"

\* the verdict lists returned by the first i calls, one after the other
RECURSIVE ReturnedUpTo(_)
ReturnedUpTo(i) ==
    IF i = 0 THEN <<>>
    ELSE ReturnedUpTo(i - 1) \o (IF processor.returned[i] = None THEN <<>> ELSE processor.returned[i][1])

\* C27: the processor calls evaluate_metric once per metric of its list, in list
\* order, and its results are the returned verdict lists one after the other in
\* that order; a call that returns None adds nothing and the loop goes on to the
\* metrics after it.
C27_OneCallPerMetric ==
    processor.level # "none" =>
        /\ Len(processor.calls_made) <= Len(processor.metric_list)
        /\ Len(processor.returned) = Len(processor.calls_made)
        /\ \A i \in 1..Len(processor.calls_made) :
              /\ processor.calls_made[i].metric_identifier = processor.metric_list[i]
              /\ processor.calls_made[i].is_conversation = (processor.level = "conversation")
        /\ processor.results = ReturnedUpTo(Len(processor.returned))
        /\ Len(processor.calls_made) < Len(processor.metric_list) => ENABLED NextProcessor

\* C27 witness: a list of three metrics is finished; the second call returned
\* None and the first and the third returned verdicts
C27_Witness ==
    /\ processor.level = "turn"
    /\ Len(processor.metric_list) = 3
    /\ Len(processor.calls_made) = 3
    /\ processor.returned[1] # None /\ Len(processor.returned[1][1]) = 2
    /\ processor.returned[2] = None
    /\ processor.returned[3] # None /\ Len(processor.returned[3][1]) = 1
    /\ Len(processor.results) = 3

\* the list a loaded metric list is expected to become under the defaults of its
\* level: the defaults that are not in it, in default order, then the list
ExpectedMetrics(metrics, defaults) ==
    IF defaults = <<>> THEN metrics
    ELSE IF metrics = None THEN Some(defaults)
    ELSE Some(SelectSeq(defaults, LAMBDA m : \A k \in 1..Len(metrics[1]) : metrics[1][k] # m)
              \o metrics[1])

====
